---- MODULE Spec2Model ----
(***************************************************************************)
(* Model of TextEditor.py: the TextEditorApp main window, its settings     *)
(* dialog, and the QSettings("TextEditor", "Settings") backing store.      *)
(*                                                                         *)
(* The backing store is modelled in the textual (INI / registry) form that *)
(* load_settings is written against: a bool is kept as the string "true"   *)
(* or "false" (line 468 compares with "true"), an int as its decimal       *)
(* string (line 465 converts with int()), strings and byte arrays as       *)
(* themselves.                                                             *)
(***************************************************************************)
EXTENDS Integers, Sequences, FiniteSets, TLC

VARIABLES
    pc,            \* position of the process: off, loaded, console, themed, ready, crashed
    font_name,     \* self.font_name
    font_size,     \* self.font_size
    theme_mode,    \* self.theme_mode
    text_content,  \* self.text_content
    show_debug,    \* self.show_debug
    geometry,      \* the window's geometry (what saveGeometry() serialises)
    text_area,     \* self.text_area's plain text
    area_font,     \* the font set on self.text_area
    styleSheet,    \* the stylesheet set on the main window
    docks,         \* every debug dock created in this process, in creation order
    debug_dock,    \* self.debug_dock: index into docks, 0 for None
    dialog,        \* the settings dialog and its widgets
    store,         \* the persistent QSettings store: key -> stored value
    lastOp         \* the operation that produced the current state

vars == <<pc, font_name, font_size, theme_mode, text_content, show_debug, geometry,
          text_area, area_font, styleSheet, docks, debug_dock, dialog, store, lastOp>>

(***************************************************************************)
(* Bounds of the model.                                                    *)
(***************************************************************************)
MaxDocks == 2   \* dock widgets created in one process

Fonts == {"Arial", "Courier New"}            \* families the font combo offers
Texts == {"", "hello"}                       \* texts the user types
EditedThemes == {"System", "Light", "Purple"}  \* strings written to the store by hand

(***************************************************************************)
(* Program constants.                                                      *)
(***************************************************************************)
DefaultFontName == "Arial"
DefaultFontSize == 16
DefaultThemeMode == "Dark"
DefaultTextContent == ""
DefaultShowDebug == FALSE
DefaultGeometry == 0       \* setGeometry(100, 100, 800, 600)
MinSize == 8
MaxSize == 72
SizeChoices == {MinSize, DefaultFontSize, MaxSize}   \* sizes the user picks in the spin box
Geometries == {DefaultGeometry, DefaultGeometry + 1}  \* where the user puts the window

DarkStyle == "dark stylesheet"
LightStyle == "light stylesheet"
NoStyle == ""

Keys == {"font_name", "font_size", "theme_mode", "text_content",
         "window_geometry", "window_state", "show_debug"}

(***************************************************************************)
(* Values held by QSettings (QVariant as seen from Python).                *)
(***************************************************************************)
VStr(s) == [k |-> "str", s |-> s, n |-> 0, b |-> FALSE]
VInt(n) == [k |-> "int", s |-> "", n |-> n, b |-> FALSE]
VBool(b) == [k |-> "bool", s |-> "", n |-> 0, b |-> b]
VBytes(n) == [k |-> "bytes", s |-> "", n |-> n, b |-> FALSE]
VNull == [k |-> "null", s |-> "", n |-> 0, b |-> FALSE]

\* What the store gives back for a value written with setValue.
Serialize(v) ==
    CASE v.k = "int" -> VStr(ToString(v.n))
      [] v.k = "bool" -> VStr(IF v.b THEN "true" ELSE "false")
      [] OTHER -> v

setValue(st, key, v) ==
    [x \in DOMAIN st \cup {key} |-> IF x = key THEN Serialize(v) ELSE st[x]]

value(st, key, default) == IF key \in DOMAIN st THEN st[key] ELSE default

\* Python's int(): the integer, or an exception (ok = FALSE).
ParseRange == 0..100
PyInt(v) ==
    CASE v.k = "int" -> [ok |-> TRUE, n |-> v.n]
      [] v.k = "str" ->
           IF \E i \in ParseRange : ToString(i) = v.s
           THEN [ok |-> TRUE, n |-> CHOOSE i \in ParseRange : ToString(i) = v.s]
           ELSE [ok |-> FALSE, n |-> 0]
      [] v.k = "bool" -> [ok |-> TRUE, n |-> IF v.b THEN 1 ELSE 0]
      [] OTHER -> [ok |-> FALSE, n |-> 0]

\* Python truth value of what settings.value() returned (lines 472, 478).
Truthy(v) == v.k = "bytes" \/ (v.k = "str" /\ v.s # "") \/ (v.k = "int" /\ v.n # 0)
                 \/ (v.k = "bool" /\ v.b)

(***************************************************************************)
(* Methods of TextEditorApp as operators.                                  *)
(***************************************************************************)
NoTheme == "<None>"   \* apply_theme's default argument

\* apply_theme whose fallback branch picks the light stylesheet.
apply_theme_lightFallback(self_theme_mode, theme) ==
    LET m == IF theme # NoTheme THEN theme ELSE self_theme_mode IN
    IF m = "Dark" THEN [theme_mode |-> m, styleSheet |-> DarkStyle]
    ELSE [theme_mode |-> "Light", styleSheet |-> LightStyle]

RECURSIVE apply_theme(_, _)
apply_theme(self_theme_mode, theme) ==
    LET m == IF theme # NoTheme THEN theme ELSE self_theme_mode IN
    IF m = "Dark" THEN [theme_mode |-> m, styleSheet |-> DarkStyle]
    ELSE IF m = "Light" THEN [theme_mode |-> m, styleSheet |-> LightStyle]
    ELSE apply_theme(m, "Dark")

init_debug_console(ds, visible) == Append(ds, [visible |-> visible, lines |-> 0])

log_debug(ds, dd, sd) ==
    IF ~sd \/ dd = 0 THEN ds ELSE [ds EXCEPT ![dd].lines = @ + 1]

saveGeometry(g) == VBytes(g)
saveState(ds) == VBytes(Len(ds))

\* save_settings_to_file without the text_content line.
save_settings_to_file_noText(st, fn, fs, tm, text, geo, wst, sd) ==
    LET s1 == setValue(st, "font_name", VStr(fn))
        s2 == setValue(s1, "font_size", VInt(fs))
        s3 == setValue(s2, "theme_mode", VStr(tm))
        s5 == setValue(s3, "window_geometry", geo)
        s6 == setValue(s5, "window_state", wst)
    IN setValue(s6, "show_debug", VBool(sd))

\* save_settings_to_file without the window_geometry line.
save_settings_to_file_noGeometry(st, fn, fs, tm, text, geo, wst, sd) ==
    LET s1 == setValue(st, "font_name", VStr(fn))
        s2 == setValue(s1, "font_size", VInt(fs))
        s3 == setValue(s2, "theme_mode", VStr(tm))
        s4 == setValue(s3, "text_content", VStr(text))
        s6 == setValue(s4, "window_state", wst)
    IN setValue(s6, "show_debug", VBool(sd))

\* save_settings_to_file without the show_debug line.
save_settings_to_file_noDebug(st, fn, fs, tm, text, geo, wst, sd) ==
    LET s1 == setValue(st, "font_name", VStr(fn))
        s2 == setValue(s1, "font_size", VInt(fs))
        s3 == setValue(s2, "theme_mode", VStr(tm))
        s4 == setValue(s3, "text_content", VStr(text))
        s5 == setValue(s4, "window_geometry", geo)
    IN setValue(s5, "window_state", wst)

save_settings_to_file(st, fn, fs, tm, text, geo, wst, sd) ==
    LET s1 == setValue(st, "font_name", VStr(fn))
        s2 == setValue(s1, "font_size", VInt(fs))
        s3 == setValue(s2, "theme_mode", VStr(tm))
        s4 == setValue(s3, "text_content", VStr(text))
        s5 == setValue(s4, "window_geometry", geo)
        s6 == setValue(s5, "window_state", wst)
    IN setValue(s6, "show_debug", VBool(sd))

\* load_settings with another default font size.
load_settings_otherDefault(st) ==
    LET size == PyInt(value(st, "font_size", VInt(12)))
        geo == value(st, "window_geometry", VNull)
    IN [ok |-> size.ok,
        font_name |-> value(st, "font_name", VStr(DefaultFontName)).s,
        font_size |-> IF size.ok THEN size.n ELSE DefaultFontSize,
        theme_mode |-> IF size.ok THEN value(st, "theme_mode", VStr(DefaultThemeMode)).s
                       ELSE DefaultThemeMode,
        text_content |-> IF size.ok THEN value(st, "text_content", VStr(DefaultTextContent)).s
                         ELSE DefaultTextContent,
        show_debug |-> IF size.ok THEN value(st, "show_debug", VStr("false")) = VStr("true")
                       ELSE DefaultShowDebug,
        geometry |-> IF size.ok /\ Truthy(geo) THEN geo.n ELSE DefaultGeometry]

\* The fields after load_settings runs on the constructor's defaults
\* (lines 36-40); ok = FALSE when int() raises at line 465, which leaves
\* the later assignments undone.
load_settings(st) ==
    LET size == PyInt(value(st, "font_size", VInt(DefaultFontSize)))
        geo == value(st, "window_geometry", VNull)
    IN [ok |-> size.ok,
        font_name |-> value(st, "font_name", VStr(DefaultFontName)).s,
        font_size |-> IF size.ok THEN size.n ELSE DefaultFontSize,
        theme_mode |-> IF size.ok THEN value(st, "theme_mode", VStr(DefaultThemeMode)).s
                       ELSE DefaultThemeMode,
        text_content |-> IF size.ok THEN value(st, "text_content", VStr(DefaultTextContent)).s
                         ELSE DefaultTextContent,
        show_debug |-> IF size.ok THEN value(st, "show_debug", VStr("false")) = VStr("true")
                       ELSE DefaultShowDebug,
        geometry |-> IF size.ok /\ Truthy(geo) THEN geo.n ELSE DefaultGeometry]

Clamp(n) == IF n < MinSize THEN MinSize ELSE IF n > MaxSize THEN MaxSize ELSE n

NoDialog == [open |-> FALSE, theme_id |-> 1, font_combo |-> DefaultFontName,
             size_spin |-> MinSize, debug_checkbox |-> FALSE,
             preview |-> <<DefaultFontName, MinSize>>]

update_preview(d) == [d EXCEPT !.preview = <<d.font_combo, d.size_spin>>]

EmptyStore == [x \in {} |-> VNull]

\* save_settings, lines 417-423: the theme the checked radio button stands for.
theme_of_id(theme_id) ==
    IF theme_id = 0 THEN "System" ELSE IF theme_id = 1 THEN "Dark" ELSE "Light"

\* open_settings, lines 325-330: the radio button checked for a theme.
id_of_theme(tm) == IF tm = "System" THEN 0 ELSE IF tm = "Dark" THEN 1 ELSE 2

\* The visibility handling without the branch that hides the dock.
handle_debug_console_noHide(ds, dd, changed, sd) ==
    IF changed /\ sd
    THEN LET made == init_debug_console(ds, sd)
         IN [docks |-> log_debug(made, Len(made), sd), debug_dock |-> Len(made)]
    ELSE [docks |-> ds, debug_dock |-> dd]

\* save_settings, lines 437-443: the docks and self.debug_dock after the
\* debug-console visibility has been handled.
handle_debug_console(ds, dd, changed, sd) ==
    IF changed
    THEN IF sd
         THEN LET made == init_debug_console(ds, sd)
              IN [docks |-> log_debug(made, Len(made), sd), debug_dock |-> Len(made)]
         ELSE IF dd # 0
              THEN [docks |-> [ds EXCEPT ![dd].visible = FALSE], debug_dock |-> dd]
              ELSE [docks |-> ds, debug_dock |-> dd]
    ELSE [docks |-> ds, debug_dock |-> dd]

(***************************************************************************)
(* Initial state: the application is installed and has never run.          *)
(***************************************************************************)
Init ==
    /\ pc = "off"
    /\ font_name = DefaultFontName
    /\ font_size = DefaultFontSize
    /\ theme_mode = DefaultThemeMode
    /\ text_content = DefaultTextContent
    /\ show_debug = DefaultShowDebug
    /\ geometry = DefaultGeometry
    /\ text_area = ""
    /\ area_font = <<"", 0>>
    /\ styleSheet = NoStyle
    /\ docks = <<>>
    /\ debug_dock = 0
    /\ dialog = NoDialog
    /\ store = EmptyStore
    /\ lastOp = "install"

(***************************************************************************)
(* Startup: main() constructs TextEditorApp; __init__ in four steps.       *)
(***************************************************************************)
\* __init__ lines 28-43: a fresh process, the defaults, then load_settings.
\* An exception of load_settings leaves __init__ and main: the process ends.
Launch ==
    /\ pc \in {"off", "crashed"}
    /\ LET r == load_settings(store) IN
        /\ font_name' = r.font_name
        /\ font_size' = r.font_size
        /\ theme_mode' = r.theme_mode
        /\ text_content' = r.text_content
        /\ show_debug' = r.show_debug
        /\ geometry' = r.geometry
        /\ pc' = IF r.ok THEN "loaded" ELSE "crashed"
    /\ text_area' = ""
    /\ area_font' = <<"", 0>>
    /\ styleSheet' = NoStyle
    /\ docks' = <<>>
    /\ debug_dock' = 0
    /\ dialog' = NoDialog
    /\ lastOp' = "load_settings"
    /\ UNCHANGED store

\* __init__ lines 45-51: the window icon, then the debug console if enabled.
StartDebugConsole ==
    /\ pc = "loaded"
    /\ pc' = "console"
    /\ IF show_debug
       THEN LET made == init_debug_console(docks, show_debug) IN
            /\ docks' = log_debug(made, Len(made), show_debug)
            /\ debug_dock' = Len(made)
       ELSE UNCHANGED <<docks, debug_dock>>
    /\ lastOp' = "init_debug_console"
    /\ UNCHANGED <<font_name, font_size, theme_mode, text_content, show_debug, geometry,
                   text_area, area_font, styleSheet, dialog, store>>

\* __init__ line 54: apply_theme().
StartApplyTheme ==
    /\ pc = "console"
    /\ pc' = "themed"
    /\ LET r == apply_theme(theme_mode, NoTheme) IN
        /\ theme_mode' = r.theme_mode
        /\ styleSheet' = r.styleSheet
    /\ lastOp' = "apply_theme"
    /\ UNCHANGED <<font_name, font_size, text_content, show_debug, geometry,
                   text_area, area_font, docks, debug_dock, dialog, store>>

\* __init__ lines 57-61: setup_ui, apply_font, setPlainText(self.text_content).
StartSetupUi ==
    /\ pc = "themed"
    /\ pc' = "ready"
    /\ area_font' = <<font_name, font_size>>
    /\ text_area' = text_content
    /\ lastOp' = "setup_ui"
    /\ UNCHANGED <<font_name, font_size, theme_mode, text_content, show_debug, geometry,
                   styleSheet, docks, debug_dock, dialog, store>>

(***************************************************************************)
(* The user at the main window (the settings dialog is modal).             *)
(***************************************************************************)
TypeText(t) ==
    /\ pc = "ready" /\ ~dialog.open
    /\ text_area' = t
    /\ lastOp' = "type"
    /\ UNCHANGED <<pc, font_name, font_size, theme_mode, text_content, show_debug, geometry,
                   area_font, styleSheet, docks, debug_dock, dialog, store>>

MoveWindow(g) ==
    /\ pc = "ready" /\ ~dialog.open
    /\ geometry' = g
    /\ lastOp' = "move"
    /\ UNCHANGED <<pc, font_name, font_size, theme_mode, text_content, show_debug,
                   text_area, area_font, styleSheet, docks, debug_dock, dialog, store>>

\* open_settings, lines 281-408.
open_settings ==
    /\ pc = "ready" /\ ~dialog.open
    /\ dialog' = update_preview(
                    [open |-> TRUE,
                     theme_id |-> id_of_theme(theme_mode),
                     font_combo |-> font_name,
                     size_spin |-> Clamp(font_size),
                     debug_checkbox |-> show_debug,
                     preview |-> <<"", 0>>])
    /\ lastOp' = "open_settings"
    /\ UNCHANGED <<pc, font_name, font_size, theme_mode, text_content, show_debug, geometry,
                   text_area, area_font, styleSheet, docks, debug_dock, store>>

\* The user at the dialog's widgets; font and size changes signal update_preview.
SelectTheme(id) ==
    /\ dialog.open
    /\ dialog' = [dialog EXCEPT !.theme_id = id]
    /\ lastOp' = "select_theme"
    /\ UNCHANGED <<pc, font_name, font_size, theme_mode, text_content, show_debug, geometry,
                   text_area, area_font, styleSheet, docks, debug_dock, store>>

SelectFont(f) ==
    /\ dialog.open
    /\ dialog' = update_preview([dialog EXCEPT !.font_combo = f])
    /\ lastOp' = "update_preview"
    /\ UNCHANGED <<pc, font_name, font_size, theme_mode, text_content, show_debug, geometry,
                   text_area, area_font, styleSheet, docks, debug_dock, store>>

SelectSize(n) ==
    /\ dialog.open
    /\ dialog' = update_preview([dialog EXCEPT !.size_spin = Clamp(n)])
    /\ lastOp' = "update_preview"
    /\ UNCHANGED <<pc, font_name, font_size, theme_mode, text_content, show_debug, geometry,
                   text_area, area_font, styleSheet, docks, debug_dock, store>>

CheckDebug(b) ==
    /\ dialog.open
    /\ dialog' = [dialog EXCEPT !.debug_checkbox = b]
    /\ lastOp' = "check_debug"
    /\ UNCHANGED <<pc, font_name, font_size, theme_mode, text_content, show_debug, geometry,
                   text_area, area_font, styleSheet, docks, debug_dock, store>>

\* The dialog is closed without the Save Settings button.
RejectDialog ==
    /\ dialog.open
    /\ dialog' = NoDialog
    /\ lastOp' = "reject"
    /\ UNCHANGED <<pc, font_name, font_size, theme_mode, text_content, show_debug, geometry,
                   text_area, area_font, styleSheet, docks, debug_dock, store>>

\* save_settings, lines 415-448.
save_settings ==
    /\ dialog.open
    /\ dialog.debug_checkbox /\ ~show_debug => Len(docks) < MaxDocks
    /\ LET chosen == theme_of_id(dialog.theme_id)
           new_debug_setting == dialog.debug_checkbox
           debug_setting_changed == new_debug_setting # show_debug
           themed == apply_theme(chosen, NoTheme)
           console == handle_debug_console(docks, debug_dock, debug_setting_changed,
                                           new_debug_setting)
       IN
        /\ font_name' = dialog.font_combo
        /\ font_size' = dialog.size_spin
        /\ show_debug' = new_debug_setting
        /\ theme_mode' = themed.theme_mode
        /\ styleSheet' = themed.styleSheet
        /\ area_font' = <<dialog.font_combo, dialog.size_spin>>
        /\ docks' = console.docks
        /\ debug_dock' = console.debug_dock
        /\ store' = save_settings_to_file(store, dialog.font_combo, dialog.size_spin,
                                          themed.theme_mode, text_area,
                                          saveGeometry(geometry), saveState(console.docks),
                                          new_debug_setting)
    /\ dialog' = NoDialog
    /\ lastOp' = "save_settings"
    /\ UNCHANGED <<pc, text_content, geometry, text_area>>

\* closeEvent, lines 481-485; the accepted event ends the process.
closeEvent ==
    /\ pc = "ready" /\ ~dialog.open
    /\ text_content' = text_area
    /\ store' = save_settings_to_file(store, font_name, font_size, theme_mode, text_area,
                                      saveGeometry(geometry), saveState(docks), show_debug)
    /\ pc' = "off"
    /\ lastOp' = "closeEvent"
    /\ UNCHANGED <<font_name, font_size, theme_mode, show_debug, geometry, text_area,
                   area_font, styleSheet, docks, debug_dock, dialog>>

(***************************************************************************)
(* The store is a file or registry entry the user can edit between runs.   *)
(***************************************************************************)
MalformedSizes == {VStr("abc"), VStr(""), VNull}

EditStore(key, v) ==
    /\ pc \in {"off", "crashed"}
    /\ store' = [x \in DOMAIN store \cup {key} |-> IF x = key THEN v ELSE store[x]]
    /\ lastOp' = "edit_store"
    /\ UNCHANGED <<pc, font_name, font_size, theme_mode, text_content, show_debug, geometry,
                   text_area, area_font, styleSheet, docks, debug_dock, dialog>>

ClearStore ==
    /\ pc \in {"off", "crashed"}
    /\ store' = EmptyStore
    /\ lastOp' = "clear_store"
    /\ UNCHANGED <<pc, font_name, font_size, theme_mode, text_content, show_debug, geometry,
                   text_area, area_font, styleSheet, docks, debug_dock, dialog>>

Next ==
    \/ Launch
    \/ StartDebugConsole
    \/ StartApplyTheme
    \/ StartSetupUi
    \/ \E t \in Texts : TypeText(t)
    \/ \E g \in Geometries : MoveWindow(g)
    \/ open_settings
    \/ \E id \in 0..2 : SelectTheme(id)
    \/ \E f \in Fonts : SelectFont(f)
    \/ \E n \in SizeChoices : SelectSize(n)
    \/ \E b \in BOOLEAN : CheckDebug(b)
    \/ RejectDialog
    \/ save_settings
    \/ closeEvent
    \/ \E s \in EditedThemes : EditStore("theme_mode", VStr(s))
    \/ \E v \in MalformedSizes : EditStore("font_size", v)
    \/ ClearStore

Spec == Init /\ [][Next]_vars

(***************************************************************************)
(* Properties.                                                             *)
(***************************************************************************)
Saves == {"save_settings", "closeEvent"}
Running == {"loaded", "console", "themed", "ready"}
Has(key) == key \in DOMAIN store
VisibleDocks == {i \in DOMAIN docks : docks[i].visible}

\* C1: load_settings on a store that holds none of the seven keys returns the
\* documented defaults (Arial, 16, Dark, "", false), finds no geometry or
\* state blob (the window gets the default geometry), and does not raise.
C1_LoadEmptyStoreGivesDefaults ==
    (lastOp = "load_settings" /\ DOMAIN store \cap Keys = {}) =>
        /\ pc = "loaded"
        /\ font_name = "Arial"
        /\ font_size = 16
        /\ theme_mode = "Dark"
        /\ text_content = ""
        /\ show_debug = FALSE
        /\ value(store, "window_geometry", VNull) = VNull
        /\ value(store, "window_state", VNull) = VNull
        /\ geometry = DefaultGeometry

C1_Witness == lastOp = "load_settings" /\ DOMAIN store = {} /\ pc = "loaded"

\* C2 as stated: right after save_settings_to_file has run (from save_settings
\* or closeEvent), load_settings on the store returns the record's font_name,
\* font_size, theme_mode, text_content and show_debug, and the geometry and
\* state blobs written.
C2_SaveThenLoadReturnsRecord ==
    lastOp \in Saves =>
        LET r == load_settings(store) IN
        /\ r.ok
        /\ r.font_name = font_name
        /\ r.font_size = font_size
        /\ r.theme_mode = theme_mode
        /\ r.text_content = text_content
        /\ r.show_debug = show_debug
        /\ value(store, "window_geometry", VNull) = saveGeometry(geometry)
        /\ value(store, "window_state", VNull) = saveState(docks)

\* C2 amended: as C2, except that the text_content read back is the text
\* area's content at the time of the save, not the record's text_content field.
C2_SaveThenLoadReturnsWritten ==
    lastOp \in Saves =>
        LET r == load_settings(store) IN
        /\ r.ok
        /\ r.font_name = font_name
        /\ r.font_size = font_size
        /\ r.theme_mode = theme_mode
        /\ r.text_content = text_area
        /\ r.show_debug = show_debug
        /\ value(store, "window_geometry", VNull) = saveGeometry(geometry)
        /\ value(store, "window_state", VNull) = saveState(docks)

C2_Witness ==
    /\ lastOp = "save_settings"
    /\ font_size \in {8, 72}
    /\ show_debug
    /\ theme_mode = "Light"
    /\ text_area # text_content
    /\ geometry # DefaultGeometry

\* C3: when save_settings returns, the store holds the theme, family, size and
\* debug flag chosen in the dialog; choosing System stores "System".
C3_SaveStoresChosenValues ==
    [][lastOp' = "save_settings" =>
         /\ store'["theme_mode"] = VStr(theme_of_id(dialog.theme_id))
         /\ store'["font_name"] = VStr(dialog.font_combo)
         /\ PyInt(store'["font_size"]) = [ok |-> TRUE, n |-> dialog.size_spin]
         /\ (store'["show_debug"] = VStr("true")) = dialog.debug_checkbox]_vars

\* C4: closeEvent writes the text area's text t under text_content whatever
\* else happened in the session; the next launch loads text_content = t and
\* initialises the text area with the loaded text.
C4_CloseKeepsText ==
    [][/\ lastOp' = "closeEvent" =>
            Has("text_content")' /\ store'["text_content"] = VStr(text_area)
       /\ (lastOp = "closeEvent" /\ lastOp' = "load_settings") =>
            pc' = "loaded" /\ text_content' = text_area
       /\ lastOp' = "setup_ui" =>
            /\ text_area' = text_content'
            /\ text_content' = load_settings(store').text_content]_vars

C4_Witness == lastOp = "setup_ui" /\ text_area = "hello" /\ show_debug

\* C5: apply_theme entered with theme_mode System sets the very stylesheet it
\* sets when entered with Dark, at startup and in save_settings.
C5_SystemLooksLikeDark ==
    [][/\ (lastOp' = "apply_theme" /\ theme_mode \in {"System", "Dark"}) =>
            styleSheet' = DarkStyle
       /\ (lastOp' = "save_settings" /\ theme_of_id(dialog.theme_id) \in {"System", "Dark"}) =>
            styleSheet' = DarkStyle]_vars

C5_Witness ==
    /\ lastOp = "apply_theme"
    /\ Has("theme_mode") /\ store["theme_mode"] = VStr("System")
    /\ styleSheet = DarkStyle

\* C6: in every state from the return of load_settings on, theme_mode is one
\* of System, Dark, Light.
C6_ThemeModeEnumerated ==
    pc \in Running => theme_mode \in {"System", "Dark", "Light"}

\* C7: with a malformed value stored under font_size, load_settings does not
\* raise: the process goes on with font_size = 16.
C7_MalformedSizeDefaulted ==
    (lastOp = "load_settings" /\ Has("font_size") /\ store["font_size"] \in MalformedSizes) =>
        pc = "loaded" /\ font_size = 16

\* C8: every save leaves the store such that a load returns the show_debug just
\* saved, and the launch after a close loads the show_debug the closed
\* session had, true or false.
C8_ShowDebugFollowsLastSave ==
    [][/\ lastOp' \in Saves => load_settings(store').show_debug = show_debug'
       /\ (lastOp = "closeEvent" /\ lastOp' = "load_settings") => show_debug' = show_debug]_vars

C8_Witness ==
    /\ lastOp = "load_settings"
    /\ show_debug
    /\ value(store, "show_debug", VNull) = VStr("true")

\* C9: once loaded, font_name, font_size, theme_mode, text_content and
\* show_debug change only in save_settings and closeEvent.
C9_OnlySaveAndCloseMutate ==
    [][lastOp' \notin (Saves \cup {"load_settings"}) =>
         UNCHANGED <<font_name, font_size, theme_mode, text_content, show_debug>>]_vars

\* C10: once the window is up, exactly one debug dock is visible when
\* show_debug is true and none when it is false.
C10_OneDockIffShowDebug ==
    pc = "ready" => Cardinality(VisibleDocks) = (IF show_debug THEN 1 ELSE 0)

C10_Witness == pc = "ready" /\ show_debug /\ Len(docks) = MaxDocks /\ dialog.open

====
